---- MODULE Spec2Model ----
(***************************************************************************)
(* Canvas blur experiments (canvas-blur/v1, v2, v3, v5).                   *)
(*                                                                         *)
(* Three specifications over one set of variables:                         *)
(*   Spec       the CanvasImage objects of v1 and v2 after construction,   *)
(*              under calls of flipHorizontal and blur;                    *)
(*   CoordSpec  the CanvasImageData of v1 under calls of                   *)
(*              convertCoordsToIndex, getPixel and setPixel;               *)
(*   PageSpec   the page scripts of v1, v2, v3 and v5 (window.onload /     *)
(*              init, the image's load handler and the blur it runs).      *)
(*                                                                         *)
(* An image buffer is a sequence of bytes; buffer position p (0-based, as  *)
(* in the source) is element p + 1 of the sequence.                        *)
(***************************************************************************)
EXTENDS Integers, Sequences, FiniteSets, TLC

\* ------------------------------------------------------------- bounds
MaxW == 3
MaxH == 3
MaxSeed == 2
MaxPasses == 2
MaxCalls == 2
MaxProbes == 1

\* ------------------------------------------------- JavaScript values
\* The object thrown by convertCoordsToIndex, as the value "no index".
CoordinateError == -1
\* What reading a typed array outside its bounds yields.
Undefined == -2
\* What arithmetic on undefined yields.
NaN == -3
\* The sentinel false returned by getPixel and setPixel.
False == <<>>
\* The value of a function that ends without a return statement.
NoValue == <<Undefined>>

\* A JavaScript number t / n kept exact as the pair <<t, n>>.
Num(v) == <<v, 1>>

Add(a, b) == IF a = NaN \/ b = Undefined \/ b = NaN THEN NaN ELSE a + b

\* Storing a number in the canvas pixel array: NaN becomes 0, anything else
\* is rounded to the nearest integer (ties to even) and clamped to 0..255.
ToUint8Clamp(q) ==
    LET t == q[1]
        n == q[2]
    IN  IF t = NaN \/ t = Undefined \/ n = 0 THEN 0
        ELSE LET d == t \div n
                 r == t % n
                 v == IF 2 * r < n THEN d
                      ELSE IF 2 * r > n THEN d + 1
                      ELSE IF d % 2 = 0 THEN d ELSE d + 1
             IN  IF v < 0 THEN 0 ELSE IF v > 255 THEN 255 ELSE v

\* ------------------------------------------------------------ images
BufLen(w, h) == w * h * 4

\* getImageData of the drawn image: the image file's bytes, one image per seed.
ImageBytes(w, h, s) ==
    [k \in 1..BufLen(w, h) |-> (s * 37 * k + 11 * k * k + 5 * s) % 256]

\* createImageData: a transparent black buffer.
createImageData(w, h) == [k \in 1..BufLen(w, h) |-> 0]

ReadByte(data, p) == IF p + 1 \in DOMAIN data THEN data[p + 1] ELSE Undefined

\* An assignment outside the array's bounds is ignored.
WriteByte(data, p, q) ==
    IF p + 1 \in DOMAIN data THEN [data EXCEPT ![p + 1] = ToUint8Clamp(q)] ELSE data

ReadPixel(data, p) ==
    <<ReadByte(data, p), ReadByte(data, p + 1), ReadByte(data, p + 2), ReadByte(data, p + 3)>>

WritePixel(data, p, pv) ==
    WriteByte(WriteByte(WriteByte(WriteByte(data, p, pv[1]), p + 1, pv[2]), p + 2, pv[3]),
              p + 3, pv[4])

PixelPositions(p) == {p, p + 1, p + 2, p + 3}

\* ---------------------------------------------- v1 CanvasImageData
convertCoordsToIndexHeight(w, h, x, y) ==
    IF x < 0 \/ x > w \/ y < 0 \/ y > h THEN CoordinateError
    ELSE (y * h * 4) + (x * 4)

convertCoordsToIndex(w, h, x, y) ==
    IF x < 0 \/ x > w \/ y < 0 \/ y > h THEN CoordinateError
    ELSE (y * w * 4) + (x * 4)

getPixel(data, w, h, x, y) ==
    LET p == convertCoordsToIndex(w, h, x, y)
    IN  IF p = CoordinateError THEN False ELSE ReadPixel(data, p)

\* The positions getPixel reads.
getPixelReads(w, h, x, y) ==
    LET p == convertCoordsToIndex(w, h, x, y)
    IN  IF p = CoordinateError THEN {} ELSE PixelPositions(p)

\* The buffer after setPixel.
setPixel(data, w, h, x, y, pv) ==
    LET p == convertCoordsToIndex(w, h, x, y)
    IN  IF p = CoordinateError THEN data ELSE WritePixel(data, p, pv)

setPixelReturn(w, h, x, y) ==
    IF convertCoordsToIndex(w, h, x, y) = CoordinateError THEN False ELSE NoValue

setPixelWrites(w, h, x, y) ==
    LET p == convertCoordsToIndex(w, h, x, y)
    IN  IF p = CoordinateError THEN {} ELSE PixelPositions(p)

\* ------------------------------------------------- v1 flipHorizontal
FlipPosNoOffset(w, x) == -(x - w)

\* pos = -(x - this.width) - 1
FlipPos(w, x) == -(x - w) - 1

\* --------------------------------------------------------- v1 blur
surroundingPixelsLength == 8

surroundingPixelsV1(xx, yy) ==
    << <<xx - 1, yy - 1>>, <<xx, yy - 1>>, <<xx + 1, yy - 1>>,
       <<xx - 1, yy>>, <<xx * 1, yy>>,
       <<xx - 1, yy + 1>>, <<xx, yy + 1>>, <<xx + 1, yy + 1>> >>

\* The buffer positions of the surrounding pixels for which getPixel returns
\* a pixel (anything but false), in the order they are visited.
SampledV1(w, h, xx, yy) ==
    LET sp == surroundingPixelsV1(xx, yy)
        ix == [p \in 1..surroundingPixelsLength |->
                  convertCoordsToIndex(w, h, sp[p][1], sp[p][2])]
    IN  SelectSeq(ix, LAMBDA p : p # CoordinateError)

\* --------------------------------------------------------- v2 blur
surroundingPixelsV2(w, p) ==
    LET width == w * 4
    IN  << p - width - 4, p - width, p - width + 4,
           p - 4, p + 4,
           p + width - 4, p + width, p + width + 4 >>

SampledV2(w, h, p) ==
    LET imageDataLength == BufLen(w, h)
    IN  SelectSeq(surroundingPixelsV2(w, p),
                  LAMBDA q : q >= 0 /\ q <= imageDataLength - 3)

\* ------------------------------------------------ v1 and v2 averaging
PixelsAt(data, sampled) == [k \in 1..Len(sampled) |-> ReadPixel(data, sampled[k])]

RECURSIVE Total(_, _, _)
Total(px, c, k) == IF k = 0 THEN 0 ELSE Add(Total(px, c, k - 1), px[k][c])

\* pixelValue: the four totals, each divided by numberOfPixels.
PixelValue(px) == [c \in 1..4 |-> <<Total(px, c, Len(px)), Len(px)>>]

ReadSet(sampled) == UNION {PixelPositions(sampled[k]) : k \in 1..Len(sampled)}

Sampled(ver, w, h, p) ==
    IF ver = "v1" THEN SampledV1(w, h, (p \div 4) % w, (p \div 4) \div w)
    ELSE SampledV2(w, h, p)

\* One whole pass of the filter reading src only: the blurred copy of src.
SinglePass(ver, src, w, h) ==
    [k \in 1..BufLen(w, h) |->
        LET p == ((k - 1) \div 4) * 4
            c == ((k - 1) % 4) + 1
        IN  ToUint8Clamp(PixelValue(PixelsAt(src, Sampled(ver, w, h, p)))[c])]

RECURSIVE IterPass(_, _, _, _, _)
IterPass(ver, src, w, h, n) ==
    IF n = 0 THEN src ELSE SinglePass(ver, IterPass(ver, src, w, h, n - 1), w, h)

\* ================================================================ state
VARIABLES
    version,        \* which script: "v1", "v2", "v3" or "v5"
    W, H,           \* image.width, image.height (this.width, this.height)
    seed,           \* which image file
    console,        \* whether the browser defines console
    pc,             \* position of the running script
    heap,           \* the image buffers alive, by identity
    cur,            \* this.canvasImageData (v1) / this.imageData (v2): index in heap
    nw,             \* newImage: index in heap
    shown,          \* the bytes last put on the canvas
    passes, i, x, y, pos,   \* the argument and loop variables of blur
    written,        \* positions of newImage written so far in the running pass
    outPos,         \* position of the pixel the last blur step wrote
    sampled,        \* positions of the pixels the last blur step sampled
    pixels,         \* the values it read there
    numberOfPixels,
    pixelValue,
    reads, writes,  \* buffer positions the last step or call read / wrote
    dirtyReads,     \* positions it read that the same pass had written before
    hist,           \* the methods called on the object so far
    snaps,          \* snaps[k]: the image when call k of hist began
    call, ret, thrown,      \* the last CanvasImageData call, its result
    log,            \* the steps of the page script, in order
    round, stmt,    \* position in the load handler
    globalAlpha,    \* context.globalAlpha, in thousandths
    layers          \* drawImage calls composited by the running v3/v5 blur

imgVars == <<version, W, H, seed, console>>
heapVars == <<heap, cur, nw, shown>>
loopVars == <<passes, i, x, y, pos, written>>
stepVars == <<outPos, sampled, pixels, numberOfPixels, pixelValue, dirtyReads>>
rwVars == <<reads, writes>>
histVars == <<hist, snaps>>
callVars == <<call, ret, thrown>>
pageVars == <<log, round, stmt, globalAlpha, layers>>
vars == <<imgVars, pc, heapVars, loopVars, stepVars, rwVars, histVars, callVars, pageVars>>

NoCall == [op |-> "none", x |-> 0, y |-> 0]

\* Everything but the image, the script position and the heap, before any
\* method has run.
Fresh ==
    /\ passes = 0 /\ i = 0 /\ x = 0 /\ y = 0 /\ pos = 0 /\ written = {}
    /\ outPos = CoordinateError /\ sampled = <<>> /\ pixels = <<>>
    /\ numberOfPixels = 0 /\ pixelValue = <<>>
    /\ reads = {} /\ writes = {} /\ dirtyReads = {}
    /\ hist = <<>> /\ snaps = <<>>
    /\ call = NoCall /\ ret = NoValue /\ thrown = FALSE
    /\ log = <<>> /\ round = 1 /\ stmt = 1 /\ globalAlpha = 1000 /\ layers = 0

\* The CanvasImage constructor: size the canvas, draw the image, and (v1, v2)
\* take its image data.
Constructed(ver, w, h, s) ==
    /\ shown = ImageBytes(w, h, s)
    /\ heap = IF ver \in {"v1", "v2"} THEN <<ImageBytes(w, h, s)>> ELSE <<>>
    /\ cur = 1 /\ nw = 1

\* ============================================== the objects of v1 and v2
\* A constructed CanvasImage, idle between method calls.
ObjInit ==
    /\ version \in {"v1", "v2"}
    /\ W \in 1..MaxW /\ H \in 1..MaxH /\ seed \in 1..MaxSeed
    /\ console = TRUE
    /\ pc = "idle"
    /\ Constructed(version, W, H, seed)
    /\ Fresh

\* v1 only has flipHorizontal. Its declarations: newImage is created.
FlipHorizontal ==
    /\ pc = "idle" /\ version = "v1" /\ Len(hist) < MaxCalls
    /\ heap' = <<heap[cur], createImageData(W, H)>>
    /\ cur' = 1 /\ nw' = 2
    /\ x' = 0 /\ y' = 0
    /\ pc' = "flip"
    /\ hist' = Append(hist, "flipHorizontal")
    /\ snaps' = Append(snaps, heap[cur])
    /\ UNCHANGED <<imgVars, shown, passes, i, pos, written, stepVars, rwVars, callVars,
                   pageVars>>

\* The body of the loops of flipHorizontal for the pixel at (x, y).
FlipPixel ==
    /\ pc = "flip" /\ y < H
    /\ LET pixel == getPixel(heap[cur], W, H, x, y)
           to == FlipPos(W, x)
       IN  /\ reads' = getPixelReads(W, H, x, y)
           /\ IF pixel # False
              THEN /\ heap' = [heap EXCEPT ![nw] =
                                 setPixel(@, W, H, to, y, [c \in 1..4 |-> Num(pixel[c])])]
                   /\ writes' = setPixelWrites(W, H, to, y)
              ELSE /\ heap' = heap
                   /\ writes' = {}
    /\ x' = IF x + 1 < W THEN x + 1 ELSE 0
    /\ y' = IF x + 1 < W THEN y ELSE y + 1
    /\ UNCHANGED <<imgVars, pc, cur, nw, shown, passes, i, pos, written, stepVars,
                   histVars, callVars, pageVars>>

\* The loops are over: this.canvasImageData = newImage, and redraw.
FlipReturn ==
    /\ pc = "flip" /\ y >= H
    /\ cur' = nw
    /\ shown' = heap[nw]
    /\ y' = 0
    /\ pc' = "idle"
    /\ UNCHANGED <<imgVars, heap, nw, passes, i, x, pos, written, stepVars, rwVars,
                   histVars, callVars, pageVars>>

\* The declarations of blur: newImage is created once, before the passes.
BlurBegin(n) ==
    /\ heap' = <<heap[cur], createImageData(W, H)>>
    /\ cur' = 1 /\ nw' = 2
    /\ passes' = n /\ i' = 0 /\ x' = 0 /\ y' = 0 /\ pos' = 0 /\ written' = {}
    /\ outPos' = CoordinateError /\ sampled' = <<>> /\ pixels' = <<>>
    /\ numberOfPixels' = 0 /\ pixelValue' = <<>>
    /\ reads' = {} /\ writes' = {} /\ dirtyReads' = {}
    /\ UNCHANGED shown

Blur ==
    /\ pc = "idle" /\ Len(hist) < MaxCalls
    /\ \E n \in 0..MaxPasses : BlurBegin(n)
    /\ pc' = "blur"
    /\ hist' = Append(hist, "blur")
    /\ snaps' = Append(snaps, heap[cur])
    /\ UNCHANGED <<imgVars, callVars, pageVars>>

\* blur is running, called on the object directly or by the page script.
Blurring == pc \in {"blur", "page.blur"}

\* The body of the pixel loop for the pixel at position p, sampling smp; last
\* tells whether p is the last pixel of the pass, after which the pass ends
\* with this.canvasImageData = newImage.
BlurStep(p, smp, last) ==
    /\ outPos' = p
    /\ sampled' = smp
    /\ pixels' = PixelsAt(heap[cur], smp)
    /\ numberOfPixels' = Len(smp)
    /\ pixelValue' = PixelValue(pixels')
    /\ reads' = ReadSet(smp)
    /\ writes' = PixelPositions(p)
    /\ dirtyReads' = IF cur = nw THEN ReadSet(smp) \cap written ELSE {}
    /\ heap' = [heap EXCEPT ![nw] = WritePixel(@, p, pixelValue')]
    /\ written' = IF last THEN {} ELSE written \cup PixelPositions(p)
    /\ cur' = IF last THEN nw ELSE cur
    /\ i' = IF last THEN i + 1 ELSE i
    /\ UNCHANGED <<nw, shown, passes>>

BlurPixelV1 ==
    /\ Blurring /\ version = "v1" /\ i < passes
    /\ LET last == (x + 1 >= W /\ y + 1 >= H)
       IN  /\ BlurStep(convertCoordsToIndex(W, H, x, y), SampledV1(W, H, x, y), last)
           /\ x' = IF x + 1 < W THEN x + 1 ELSE 0
           /\ y' = IF x + 1 < W THEN y ELSE IF last THEN 0 ELSE y + 1
    /\ UNCHANGED <<imgVars, pc, pos, histVars, callVars, pageVars>>

BlurPixelV2 ==
    /\ Blurring /\ version = "v2" /\ i < passes
    /\ LET last == (pos + 4 >= BufLen(W, H))
       IN  /\ BlurStep(pos, SampledV2(W, H, pos), last)
           /\ pos' = IF last THEN 0 ELSE pos + 4
    /\ UNCHANGED <<imgVars, pc, x, y, histVars, callVars, pageVars>>

\* The passes are over: redraw, and blur returns to its caller.
BlurReturn ==
    /\ pc = "blur" /\ i = passes
    /\ shown' = heap[cur]
    /\ pc' = "idle"
    /\ UNCHANGED <<imgVars, heap, cur, nw, loopVars, stepVars, rwVars, histVars,
                   callVars, pageVars>>

Next == FlipHorizontal \/ FlipPixel \/ FlipReturn \/ Blur \/ BlurPixelV1 \/ BlurPixelV2 \/ BlurReturn

Init == ObjInit

Spec == Init /\ [][Next]_vars

\* ================================== calls on the CanvasImageData of v1
\* The pixel values handed to setPixel.
ProbePixel == <<Num(200), Num(100), Num(50), Num(25)>>

CoordInit == ObjInit /\ version = "v1"

\* Coordinates from one outside the image on every side.
ProbeCoords == (-1..W) \X (-1..H)

CallConvertCoordsToIndex ==
    /\ pc = "idle" /\ Len(hist) < MaxProbes
    /\ \E xy \in ProbeCoords :
          LET p == convertCoordsToIndex(W, H, xy[1], xy[2])
          IN  /\ call' = [op |-> "convertCoordsToIndex", x |-> xy[1], y |-> xy[2]]
              /\ thrown' = (p = CoordinateError)
              /\ ret' = IF p = CoordinateError THEN NoValue ELSE <<p>>
    /\ reads' = {} /\ writes' = {}
    /\ hist' = Append(hist, "convertCoordsToIndex")
    /\ snaps' = Append(snaps, heap[cur])
    /\ UNCHANGED <<imgVars, pc, heapVars, loopVars, stepVars, pageVars>>

CallGetPixel ==
    /\ pc = "idle" /\ Len(hist) < MaxProbes
    /\ \E xy \in ProbeCoords :
          /\ call' = [op |-> "getPixel", x |-> xy[1], y |-> xy[2]]
          /\ ret' = getPixel(heap[cur], W, H, xy[1], xy[2])
          /\ reads' = getPixelReads(W, H, xy[1], xy[2])
    /\ thrown' = FALSE /\ writes' = {}
    /\ hist' = Append(hist, "getPixel")
    /\ snaps' = Append(snaps, heap[cur])
    /\ UNCHANGED <<imgVars, pc, heapVars, loopVars, stepVars, pageVars>>

CallSetPixel ==
    /\ pc = "idle" /\ Len(hist) < MaxProbes
    /\ \E xy \in ProbeCoords :
          /\ call' = [op |-> "setPixel", x |-> xy[1], y |-> xy[2]]
          /\ ret' = setPixelReturn(W, H, xy[1], xy[2])
          /\ writes' = setPixelWrites(W, H, xy[1], xy[2])
          /\ heap' = [heap EXCEPT ![cur] = setPixel(@, W, H, xy[1], xy[2], ProbePixel)]
    /\ thrown' = FALSE /\ reads' = {}
    /\ hist' = Append(hist, "setPixel")
    /\ snaps' = Append(snaps, heap[cur])
    /\ UNCHANGED <<imgVars, pc, cur, nw, shown, loopVars, stepVars, pageVars>>

CoordNext == CallConvertCoordsToIndex \/ CallGetPixel \/ CallSetPixel

CoordSpec == CoordInit /\ [][CoordNext]_vars

\* ====================================================== the page scripts
\* canvasImage.blur(4) in the scripts of v1, v2 and v3.
PagePasses == 4
\* v5 blurs four canvases, blur_1 .. blur_4, with strength 1 .. 4.
RoundsV5 == 4

Rounds(ver) == IF ver = "v5" THEN RoundsV5 ELSE 1

\* The argument of blur in round r.
BlurArg(ver, r) == IF ver = "v5" THEN r ELSE PagePasses

HandlerStepsTimeLate == <<"construct", "blur", "time", "timeEnd">>

\* The statements of the image's load handler, in source order (v5 repeats
\* them once per canvas).
HandlerSteps == <<"construct", "time", "blur", "timeEnd">>

Logged(ev) == log' = Append(log, [ev |-> ev, id |-> round])

\* After the statement at stmt: the next one, the next round, or the end.
Advance ==
    IF stmt < Len(HandlerSteps) THEN /\ stmt' = stmt + 1
                                     /\ round' = round
                                     /\ pc' = "handler"
    ELSE IF round < Rounds(version) THEN /\ stmt' = 1
                                         /\ round' = round + 1
                                         /\ pc' = "handler"
    ELSE /\ stmt' = stmt
         /\ round' = round
         /\ pc' = "done"

PageInit ==
    /\ version \in {"v1", "v2", "v3", "v5"}
    /\ W \in 1..MaxW /\ H \in 1..MaxH /\ seed \in 1..MaxSeed
    /\ console \in BOOLEAN
    /\ pc = "start"
    /\ shown = <<>> /\ heap = <<>> /\ cur = 1 /\ nw = 1
    /\ Fresh

\* window.onload (v1, v2, v5) or init(id, url) (v3): create the Image, set
\* its onload handler, then its src.
StartLoad ==
    /\ pc = "start"
    /\ pc' = "loading"
    /\ Logged("src")
    /\ UNCHANGED <<imgVars, heapVars, loopVars, stepVars, rwVars, histVars, callVars,
                   round, stmt, globalAlpha, layers>>

\* The browser fires the image's load event: the handler starts.
ImageLoad ==
    /\ pc = "loading"
    /\ pc' = "handler"
    /\ Logged("load")
    /\ UNCHANGED <<imgVars, heapVars, loopVars, stepVars, rwVars, histVars, callVars,
                   round, stmt, globalAlpha, layers>>

\* The image cannot be loaded: no handler is set for that, nothing runs.
ImageError ==
    /\ pc = "loading"
    /\ pc' = "failed"
    /\ UNCHANGED <<imgVars, heapVars, loopVars, stepVars, rwVars, histVars, callVars,
                   pageVars>>

AtStmt(name) == pc = "handler" /\ HandlerSteps[stmt] = name

\* new CanvasImage(canvas, this)
PageConstruct ==
    /\ AtStmt("construct")
    /\ shown' = ImageBytes(W, H, seed)
    /\ heap' = IF version \in {"v1", "v2"} THEN <<ImageBytes(W, H, seed)>> ELSE <<>>
    /\ cur' = 1 /\ nw' = 1
    /\ layers' = 0
    /\ Logged("construct")
    /\ Advance
    /\ UNCHANGED <<imgVars, loopVars, stepVars, rwVars, histVars, callVars, globalAlpha>>

\* console.time(id) / console.timeEnd(id). Without a console the statement
\* throws: v5 swallows that in an empty catch, the others leave the handler.
ConsoleCall(name) ==
    /\ Logged(name)
    /\ IF console \/ version = "v5" THEN Advance
       ELSE pc' = "aborted" /\ UNCHANGED <<round, stmt>>
    /\ UNCHANGED <<imgVars, heapVars, loopVars, stepVars, rwVars, histVars, callVars,
                   globalAlpha, layers>>

ConsoleTime ==
    /\ AtStmt("time")
    /\ ConsoleCall("time")

ConsoleTimeEnd ==
    /\ AtStmt("timeEnd")
    /\ ConsoleCall("timeEnd")

\* canvasImage.blur(...) is entered.
PageBlur ==
    /\ AtStmt("blur")
    /\ pc' = "page.blur"
    /\ Logged("blurStart")
    /\ IF version \in {"v1", "v2"}
       THEN /\ BlurBegin(BlurArg(version, round))
            /\ UNCHANGED globalAlpha
       ELSE /\ passes' = BlurArg(version, round)
            /\ globalAlpha' = IF version = "v3" THEN 125 ELSE 500
            /\ i' = 1
            /\ x' = IF version = "v3" THEN -1 ELSE -BlurArg(version, round)
            /\ y' = IF version = "v3" THEN -1 ELSE -BlurArg(version, round)
            /\ UNCHANGED <<heapVars, pos, written, stepVars, rwVars>>
    /\ UNCHANGED <<imgVars, histVars, callVars, round, stmt, layers>>

\* v3: one drawImage(this.element, x, y) of the loops i = 1..passes,
\* y = -1..1, x = -1..1. The browser composites the layer; the pixels that
\* result are the browser's, only the number of layers is kept.
BlurLayerV3 ==
    /\ pc = "page.blur" /\ version = "v3" /\ i <= passes
    /\ layers' = layers + 1
    /\ x' = IF x + 1 < 2 THEN x + 1 ELSE -1
    /\ y' = IF x + 1 < 2 THEN y ELSE IF y + 1 < 2 THEN y + 1 ELSE -1
    /\ i' = IF x + 1 < 2 \/ y + 1 < 2 THEN i ELSE i + 1
    /\ UNCHANGED <<imgVars, pc, heapVars, passes, pos, written, stepVars, rwVars,
                   histVars, callVars, log, round, stmt, globalAlpha>>

\* v5: one drawImage of the loops y = -strength..strength,
\* x = -strength..strength.
BlurLayerV5 ==
    /\ pc = "page.blur" /\ version = "v5" /\ y <= passes
    /\ layers' = layers + 1
    /\ x' = IF x + 1 <= passes THEN x + 1 ELSE -passes
    /\ y' = IF x + 1 <= passes THEN y ELSE y + 1
    /\ UNCHANGED <<imgVars, pc, heapVars, passes, i, pos, written, stepVars, rwVars,
                   histVars, callVars, log, round, stmt, globalAlpha>>

\* The loops of blur are over: redraw (v1, v2) or reset globalAlpha (v3, v5),
\* and blur returns to the handler.
PageBlurReturn ==
    /\ pc = "page.blur"
    /\ CASE version \in {"v1", "v2"} -> i = passes
         [] version = "v3" -> i > passes
         [] version = "v5" -> y > passes
    /\ IF version \in {"v1", "v2"}
       THEN shown' = heap[cur] /\ UNCHANGED globalAlpha
       ELSE globalAlpha' = 1000 /\ UNCHANGED shown
    /\ Logged("blurReturn")
    /\ Advance
    /\ UNCHANGED <<imgVars, heap, cur, nw, loopVars, stepVars, rwVars, histVars,
                   callVars, layers>>

PageNext ==
    \/ StartLoad \/ ImageLoad \/ ImageError
    \/ PageConstruct \/ ConsoleTime \/ PageBlur
    \/ BlurPixelV1 \/ BlurPixelV2 \/ BlurLayerV3 \/ BlurLayerV5
    \/ PageBlurReturn \/ ConsoleTimeEnd

PageSpec == PageInit /\ [][PageNext]_vars

\* =============================================================== claims
\* Row-major position of the pixel at column xx, row yy of an image w wide.
RowMajor(w, xx, yy) == (yy * w + xx) * 4

InImage(w, h, xx, yy) == 0 <= xx /\ xx < w /\ 0 <= yy /\ yy < h

\* Column and row of the pixel that owns buffer position p.
ColOf(w, p) == (p \div 4) % w
RowOf(w, p) == (p \div 4) \div w

\* A blur step has run and its locals are live.
StepDone == Blurring /\ outPos # CoordinateError

SeqSet(sq) == {sq[k] : k \in 1..Len(sq)}

RECURSIVE SumChannel(_, _, _)
SumChannel(S, data, c) ==
    IF S = {} THEN 0
    ELSE LET p == CHOOSE q \in S : TRUE
         IN  data[p + c] + SumChannel(S \ {p}, data, c)

\* The pixel and its immediate neighbours inside the image, as positions.
Box3x3(w, h, p) ==
    {RowMajor(w, ColOf(w, p) + dx, RowOf(w, p) + dy) : <<dx, dy>> \in
        {d \in (-1..1) \X (-1..1) : InImage(w, h, ColOf(w, p) + d[1], RowOf(w, p) + d[2])}}

OutOfRange(w, h, xx, yy) == ~InImage(w, h, xx, yy)

\* C1: in v1, for x in -1..W and y in -1..H, convertCoordsToIndex throws,
\* getPixel returns false without reading the buffer and setPixel returns
\* false without writing it, exactly when (x, y) is out of range.
C1_OutOfRangeReported ==
    /\ call.op = "convertCoordsToIndex" =>
          (thrown <=> OutOfRange(W, H, call.x, call.y))
    /\ call.op = "getPixel" =>
          ((ret = False /\ reads = {}) <=> OutOfRange(W, H, call.x, call.y))
    /\ call.op = "setPixel" =>
          ((ret = False /\ writes = {} /\ heap[cur] = snaps[Len(snaps)])
              <=> OutOfRange(W, H, call.x, call.y))

\* C4: in v1, for in-range (x, y) convertCoordsToIndex returns the row-major
\* index (y*W + x)*4, a multiple of 4 with index + 3 inside the buffer, and no
\* other in-range coordinate has that index; (34, 56) of a 100x100 image has
\* index 22536.
C4_RowMajorIndex ==
    /\ convertCoordsToIndex(100, 100, 34, 56) = 22536
    /\ (call.op = "convertCoordsToIndex" /\ InImage(W, H, call.x, call.y)) =>
          /\ ~thrown
          /\ ret = <<RowMajor(W, call.x, call.y)>>
          /\ ret[1] % 4 = 0
          /\ ret[1] + 3 < BufLen(W, H)
          /\ \A xx \in 0..(W - 1), yy \in 0..(H - 1) :
                <<xx, yy>> # <<call.x, call.y>> =>
                    convertCoordsToIndex(W, H, xx, yy) # ret[1]

C4_Witness ==
    /\ call.op = "convertCoordsToIndex"
    /\ call.x = W - 1 /\ call.y = H - 1 /\ W >= 2 /\ H >= 2
    /\ ret = <<BufLen(W, H) - 4>>

HasLogged(ev, id, j) == \E k \in 1..(j - 1) : log[k] = [ev |-> ev, id |-> id]

\* C6: in every page script the steps come in the order load, draw, filter,
\* log: CanvasImage is constructed only after the image's load event, blur is
\* entered only after the constructor drew the image and after console.time,
\* and console.timeEnd comes only after blur returned.
C6_PageOrder ==
    /\ \A j \in 1..Len(log) :
          /\ log[j].ev = "load" => HasLogged("src", 1, j)
          /\ log[j].ev = "construct" => HasLogged("load", 1, j)
          /\ log[j].ev = "blurStart" =>
                /\ HasLogged("construct", log[j].id, j)
                /\ HasLogged("time", log[j].id, j)
          /\ log[j].ev = "blurReturn" => HasLogged("blurStart", log[j].id, j)
          /\ log[j].ev = "timeEnd" => HasLogged("blurReturn", log[j].id, j)
    /\ shown # <<>> => HasLogged("load", 1, Len(log) + 1)
    /\ pc = "page.blur" =>
          /\ shown # <<>>
          /\ HasLogged("time", round, Len(log) + 1)
          /\ ~HasLogged("timeEnd", round, Len(log) + 1)

C6_Witness ==
    /\ pc = "done" /\ version = "v5" /\ round = RoundsV5
    /\ log[Len(log)] = [ev |-> "timeEnd", id |-> RoundsV5]
    /\ layers = 81

\* The image the running blur started from, and whether the last step
\* belonged to its first pass (which reads that image).
PassSource == IF hist = <<>> THEN ImageBytes(W, H, seed) ELSE snaps[Len(snaps)]
FirstPass == i = 0 \/ (i = 1 /\ written = {})

\* C2: in v1, the pixels sampled for an output pixel are exactly the pixels of
\* its 3x3 box that lie inside the image, each once, and each output channel
\* is the sum of that channel over them divided by their number.
C2_SampledBoxV1 ==
    (StepDone /\ version = "v1") =>
        /\ SeqSet(sampled) = Box3x3(W, H, outPos)
        /\ Len(sampled) = Cardinality(Box3x3(W, H, outPos))
        /\ \A c \in 1..4 :
              /\ pixelValue[c][2] = Cardinality(Box3x3(W, H, outPos))
              /\ pixelValue[c][1] # NaN
              /\ FirstPass => pixelValue[c][1] =
                    SumChannel(Box3x3(W, H, outPos), PassSource, c)

\* C3: in v2, every position sampled for a pixel belongs to one of its eight
\* geometric neighbours inside the image (no wrap-around between rows).
C3_AdjacentV2 ==
    (StepDone /\ version = "v2") =>
        \A k \in 1..Len(sampled) :
            LET dx == ColOf(W, sampled[k]) - ColOf(W, outPos)
                dy == RowOf(W, sampled[k]) - RowOf(W, outPos)
            IN  /\ sampled[k] \in 0..(BufLen(W, H) - 4)
                /\ dx \in -1..1 /\ dy \in -1..1
                /\ <<dx, dy>> # <<0, 0>>

Mirrored(before, after) ==
    \A xx \in 0..(W - 1), yy \in 0..(H - 1) :
        ReadPixel(after, RowMajor(W, W - 1 - xx, yy)) = ReadPixel(before, RowMajor(W, xx, yy))

\* Call k of hist has returned; the image it left.
Returned(k) == k < Len(hist) \/ pc = "idle"
After(k) == IF k < Len(hist) THEN snaps[k + 1] ELSE heap[cur]

\* C5: flipHorizontal is lossless. After a call the pixel at (W-1-x, y) holds
\* what (x, y) held before, the buffer keeps its size, and a second call in a
\* row restores the image of before the first.
C5_FlipLossless ==
    \A k \in 1..Len(hist) :
        (hist[k] = "flipHorizontal" /\ Returned(k)) =>
            /\ Mirrored(snaps[k], After(k))
            /\ Len(After(k)) = BufLen(W, H)
            /\ Len(snaps[k]) = BufLen(W, H)
            /\ (k >= 2 /\ hist[k - 1] = "flipHorizontal") => After(k) = snaps[k - 1]

C5_Witness ==
    /\ hist = <<"flipHorizontal", "flipHorizontal">> /\ pc = "idle"
    /\ W >= 2 /\ H >= 2
    /\ snaps[2] # snaps[1]
    /\ heap[cur] = ImageBytes(W, H, seed)

\* C7: blur(n) is the single-pass filter applied n times, each pass reading
\* only the image the pass before produced: the result of a finished blur is
\* the n-fold single pass of the image it started from (that image itself for
\* n = 0), and no step reads a position its own pass has written.
C7_PassesCompose ==
    /\ dirtyReads = {}
    /\ (pc = "idle" /\ hist # <<>> /\ hist[Len(hist)] = "blur") =>
          heap[cur] = IterPass(version, snaps[Len(snaps)], W, H, passes)

\* C8: in v1 and v2, numberOfPixels is at least 1 at the division, every
\* value sampled is a channel value, and every channel written lies between
\* the least and the greatest value sampled for it.
C8_AverageInRange ==
    StepDone =>
        /\ numberOfPixels >= 1
        /\ \A c \in 1..4 :
              /\ \A k \in 1..Len(pixels) : pixels[k][c] \in 0..255
              /\ \E k \in 1..Len(pixels) : pixels[k][c] <= heap[nw][outPos + c]
              /\ \E k \in 1..Len(pixels) : pixels[k][c] >= heap[nw][outPos + c]

\* C9: in v1 and v2, every position at which blur reads or writes the image
\* buffer lies in 0 .. W*H*4 - 1.
C9_InBounds ==
    StepDone => (reads \cup writes) \subseteq 0..(BufLen(W, H) - 1)

====
